---- MODULE Spec2Model ----
(***************************************************************************)
(* The Twilio webhook dispatcher of the AI voice sales agent               *)
(* (src/twilio_directory/webhook.py).                                      *)
(*                                                                         *)
(* The Flask application serves every callback on a thread of its own, so  *)
(* the handlers run interleaved over the process-wide dictionary           *)
(* conversation_states.  A handler is cut into steps at its calls to the   *)
(* external collaborators (the CRM and the GPT decision function), which   *)
(* are network calls during which the other threads run; the in-memory     *)
(* code between two such calls is one step.  What a collaborator answers   *)
(* (a value, or an exception) is chosen when the call returns.             *)
(***************************************************************************)
EXTENDS Integers, Sequences, FiniteSets, TLC

(* ---------------------------- bounds ---------------------------------- *)

\* worker threads serving callbacks at the same time
NumThreads == 2

\* callbacks delivered in one behaviour
MaxRequests == 3

Threads == 1..NumThreads

(* ------------------------ the environment ------------------------------ *)

\* lead identifiers (the <lead_id> of the voice URL, the lead_id form field)
Leads == {"L1", "L2"}

\* request.form.get('lead_id') of a gather callback that carries none
NoLeadId == ""

\* The provider's calls.  initiate_call puts the lead into the voice URL of the
\* call it creates, so a CallSid belongs to one lead; L1 is called twice.
CallSids == {"CA1", "CA2", "CA3"}

LeadOfCall == [c \in CallSids |-> IF c = "CA3" THEN "L2" ELSE "L1"]

\* CallStatus values of the status callback
CallStatuses == {"answered", "completed"}

\* SpeechResult values of the gather callback
Utterances == {"yes interested", "no"}

\* Confidence of the gather callback
Confidence == "0.9"

\* A Python dict is a function on its keys; d.get(k, default)
Get(d, k, default) == IF k \in DOMAIN d THEN d[k] ELSE default

EmptyDict == [k \in {} |-> k]

\* Python's None, where a dict is expected and where a string is
None == [none |-> TRUE]

NoneStr == "None"

\* str(x), the serialisation handed to the CRM
Str(x) == <<"str", x>>

\* What a call to a collaborator comes back with
Returned(v) == [raised |-> FALSE, value |-> v]

Raised == [raised |-> TRUE]

\* crm.get_lead_by_id: a record, an empty record, None, or an exception
LeadInfos ==
    { [First_Name |-> "Asha", Last_Name |-> "Rao", Company |-> "Acme"],
      [Company |-> "Acme"],
      EmptyDict,
      None }

FetchOutcomes == {Returned(i) : i \in LeadInfos} \cup {Raised}

\* gpt_agent.process_user_response / process_final_qualification: the dicts
\* the handlers read with .get, or an exception
GptResponses ==
    { [is_final |-> FALSE, next_question |-> "What is your budget?"],
      [is_final |-> FALSE],
      [is_final |-> TRUE, qualification_result |-> "qualified",
       summary |-> "summary", reason |-> "reason"],
      [is_final |-> TRUE, qualification_result |-> "not_qualified",
       summary |-> "summary", reason |-> "reason"],
      [is_final |-> TRUE] }

GptOutcomes == {Returned(r) : r \in GptResponses} \cup {Raised}

\* crm.mark_lead_qualified / mark_lead_disqualified: returns or raises
CrmWriteOutcomes == {Returned(TRUE), Raised}

(* ----------------------------- state ----------------------------------- *)

VARIABLES
    conversation_states,  \* the dict lead_id -> conversation state
    clock,                \* datetime.now()
    pc,                   \* where each thread is in its handler
    request,              \* the callback each thread is serving
    local,                \* the handler's local variables
    calls,                \* the collaborator calls the handler has made, in order
    returned,             \* the handler that returned last: its callback, its
                          \* response, the collaborator calls it made, what the
                          \* decision function answered and whether it caught
                          \* an exception
    terminal_writes,      \* per lead: terminal CRM writes that went through
    requests,             \* callbacks delivered so far
    voice_handled,        \* the voice callbacks handled so far: the call, and
                          \* whether the CRM returned the lead's record
    manager               \* the CallManager of call.py: the operation it made
                          \* last, its arguments and what it returned

vars == <<conversation_states, clock, pc, request, local, calls, returned,
          terminal_writes, requests, voice_handled, manager>>

NoRequest == [handler |-> "none", serial |-> 0]

NoLocal == EmptyDict

NoResponse == [type |-> "none"]

\* the CallManager before its first operation; phone is the number the
\* caller holds for the lead
NewManager(phone) == [op |-> "none", phone |-> phone]

IdleManager == NewManager(<<>>)

Init ==
    /\ conversation_states = EmptyDict
    /\ clock = 0
    /\ pc = [t \in Threads |-> "idle"]
    /\ request = [t \in Threads |-> NoRequest]
    /\ local = [t \in Threads |-> NoLocal]
    /\ calls = [t \in Threads |-> <<>>]
    /\ returned = [request |-> NoRequest, response |-> NoResponse, calls |-> <<>>,
                   decision |-> None, caught |-> FALSE]
    /\ terminal_writes = [l \in Leads |-> 0]
    /\ requests = 0
    /\ voice_handled = {}
    /\ manager = IdleManager

(* --------------------------- responses --------------------------------- *)

Say(text) == <<"Say", text, "Polly.Aditi", "hi-IN">>

Hangup == <<"Hangup">>

GatherVerb(lead_id) ==
    <<"Gather", "speech", "hi-IN", <<"/twilio/gather?lead_id=", lead_id>>,
      Say("Aap kuch bol sakte hain?")>>

\* Response(str(twiml), mimetype='text/xml')
TwimlResponse(twiml) ==
    [type |-> "Response", mimetype |-> "text/xml", body |-> Str(twiml)]

\* Response('OK', status=200), Response('Error', status=500)
PlainResponse(text, status) ==
    [type |-> "Response", body |-> text, status |-> status]

\* _generate_error_response without its response.hangup()
_generate_error_response_no_hangup(error_message) ==
    [type |-> "VoiceResponse",
     body |-> << Say(<<"Sorry, ", error_message, ". Please try again later.">>) >>]

\* _generate_error_response: the VoiceResponse itself is what is returned
_generate_error_response(error_message) ==
    [type |-> "VoiceResponse",
     body |-> << Say(<<"Sorry, ", error_message, ". Please try again later.">>),
                 Hangup >>]

\* f"{first_name} {last_name}".strip(), "Sir/Madam" when empty
LeadName(lead_info) ==
    LET first_name == Get(lead_info, "First_Name", "")
        last_name == Get(lead_info, "Last_Name", "")
    IN  IF first_name = "" /\ last_name = ""
        THEN <<"Sir/Madam">>
        ELSE <<first_name, last_name>>

_generate_voice_response(lead_id, lead_info) ==
    << Say(<<"Namaste ", LeadName(lead_info),
             "! Main aapko call kar raha hoon. Kya aap mujhe 2 minute de sakte hain?">>),
       GatherVerb(lead_id),
       Say("Thank you for your time. Goodbye!"),
       Hangup >>

\* the markup of _generate_follow_up_response
FollowUpTwiml(lead_id, gpt_response) ==
    IF Get(gpt_response, "is_final", FALSE)
    THEN << Say(IF Get(gpt_response, "qualification_result", "unknown") = "qualified"
                THEN "Bahut achha! Aap qualify ho gaye hain. Hamara team aapko contact karega. Thank you!"
                ELSE "Thank you for your time. Hamara team aapko future mein contact kar sakta hai. Goodbye!"),
            Hangup >>
    ELSE << Say(Get(gpt_response, "next_question",
                    "Kya aap mujhe aur detail de sakte hain?")),
            GatherVerb(lead_id),
            Say("Thank you for your time. Goodbye!"),
            Hangup >>

(* ------------------------ the state store ------------------------------ *)

\* conversation_states[lead_id] = value
Put(d, k, v) == [x \in DOMAIN d \cup {k} |-> IF x = k THEN v ELSE d[x]]

\* del conversation_states[lead_id]
Del(d, k) == [x \in DOMAIN d \ {k} |-> d[x]]

\* the state the voice webhook creates
NewState(lead_id, call_sid, now) ==
    [lead_id |-> lead_id,
     call_sid |-> call_sid,
     conversation_history |-> <<>>,
     current_step |-> "greeting",
     start_time |-> now,
     qualification_questions |-> <<>>]

\* the turn the gather handler appends
UserTurn(speech_result, confidence, now) ==
    [speaker |-> "user", message |-> speech_result,
     confidence |-> confidence, timestamp |-> now]

\* the turn put in front: conversation_history.insert(0, turn)
AppendTurn_insert_first(state, turn) ==
    [state EXCEPT !.conversation_history = <<turn>> \o @]

\* conversation_states[lead_id]['conversation_history'].append(turn)
AppendTurn(state, turn) ==
    [state EXCEPT !.conversation_history = Append(@, turn)]

\* lead_id and lead_id in conversation_states
KnownLead(d, lead_id) == lead_id # NoLeadId /\ lead_id \in DOMAIN d

\* the state set up anew by every voice webhook, the membership test left out
InitState_always(d, lead_id, call_sid, now) ==
    Put(d, lead_id, NewState(lead_id, call_sid, now))

\* if lead_id not in conversation_states: conversation_states[lead_id] = {...}
InitState(d, lead_id, call_sid, now) ==
    IF lead_id \notin DOMAIN d
    THEN Put(d, lead_id, NewState(lead_id, call_sid, now))
    ELSE d

\* not lead_info
Falsy(lead_info) == lead_info = None \/ lead_info = EmptyDict

\* the scan comparing the wrong field: state.get('lead_id') == call_sid
MatchingLeads_by_lead_id(d, call_sid) ==
    {l \in DOMAIN d : Get(d[l], "lead_id", NoneStr) = call_sid}

\* the scan of handle_call_status: the lead whose state holds call_sid
MatchingLeads(d, call_sid) == {l \in DOMAIN d : Get(d[l], "call_sid", NoneStr) = call_sid}

FindLead(d, call_sid) ==
    IF MatchingLeads(d, call_sid) = {} THEN NoLeadId
    ELSE CHOOSE l \in MatchingLeads(d, call_sid) : TRUE

(* ------------------------ collaborator calls --------------------------- *)

\* the CRM update of _generate_follow_up_response
FollowUpCrmCall(lead_id, gpt_response, history) ==
    IF Get(gpt_response, "qualification_result", "unknown") = "qualified"
    THEN <<"crm.mark_lead_qualified", lead_id,
           Get(gpt_response, "summary", ""), Str(history)>>
    ELSE <<"crm.mark_lead_disqualified",
           Get(gpt_response, "reason", "No specific reason"), Str(history)>>

\* the CRM update of _process_final_qualification
FinalCrmCall(lead_id, final_response, history) ==
    IF Get(final_response, "qualification_result", "unknown") = "qualified"
    THEN <<"crm.mark_lead_qualified", lead_id,
           Get(final_response, "summary", ""), Str(history)>>
    ELSE <<"crm.mark_lead_disqualified",
           Get(final_response, "reason", "No specific reason"), Str(history)>>

TerminalWrites == {"crm.mark_lead_qualified", "crm.mark_lead_disqualified"}

DecisionCalls ==
    {"gpt_agent.process_user_response", "gpt_agent.process_final_qualification"}

(* --------------------------- the handlers ------------------------------ *)

\* A free thread takes the next callback.  The threads are alike, so the
\* first free one takes it.
Accepts(t) ==
    /\ pc[t] = "idle"
    /\ \A u \in Threads : u < t => pc[u] # "idle"
    /\ requests < MaxRequests
    /\ requests' = requests + 1
    /\ UNCHANGED manager

\* what a handler leaves behind when it returns
Outcome(req, r, made, decision, caught) ==
    [request |-> req, response |-> r, calls |-> made,
     decision |-> decision, caught |-> caught]

\* the handler serving req returns in the step that took the callback
ReturnAtOnce(outcome) ==
    /\ returned' = outcome
    /\ UNCHANGED <<pc, request, local, calls>>

\* the handler of thread t returns
Return(t, outcome) ==
    /\ returned' = outcome
    /\ pc' = [pc EXCEPT ![t] = "idle"]
    /\ request' = [request EXCEPT ![t] = NoRequest]
    /\ local' = [local EXCEPT ![t] = NoLocal]
    /\ calls' = [calls EXCEPT ![t] = <<>>]

\* the CRM returned a record: no exception, and not "not lead_info"
Fetched(fetch) == ~fetch.raised /\ ~Falsy(fetch.value)

\* what handle_voice_webhook answers once the CRM has
VoiceReply(lead_id, fetch) ==
    IF fetch.raised
    THEN _generate_error_response("Error fetching lead information")
    ELSE IF Falsy(fetch.value)
    THEN _generate_error_response("Lead information not found")
    ELSE TwimlResponse(_generate_voice_response(lead_id, fetch.value))

\* POST /twilio/voice/<lead_id>
handle_voice_webhook(t, call_sid, fetch) ==
    LET lead_id == LeadOfCall[call_sid]
        req == [handler |-> "voice", serial |-> requests + 1,
                lead_id |-> lead_id, call_sid |-> call_sid]
    IN  /\ Accepts(t)
        /\ conversation_states' =
               InitState(conversation_states, lead_id, call_sid, clock)
        /\ clock' = IF conversation_states' # conversation_states
                    THEN clock + 1 ELSE clock
        /\ ReturnAtOnce(Outcome(req, VoiceReply(lead_id, fetch),
                                << <<"crm.get_lead_by_id", lead_id>> >>,
                                None, fetch.raised))
        /\ voice_handled' = voice_handled \cup {<<call_sid, Fetched(fetch)>>}
        /\ UNCHANGED terminal_writes

\* a state another thread holds a reference to sees the append too
Aliased(loc, old, new) ==
    IF "state" \in DOMAIN loc /\ loc.state = old
    THEN [loc EXCEPT !.state = new]
    ELSE loc

\* POST /twilio/gather, up to the call of the decision function
handle_gather(t, lead_id, speech_result) ==
    LET req == [handler |-> "gather", serial |-> requests + 1,
                lead_id |-> lead_id, speech_result |-> speech_result]
    IN  /\ Accepts(t)
        /\ IF ~KnownLead(conversation_states, lead_id)
           THEN /\ ReturnAtOnce(Outcome(req,
                        _generate_error_response("Invalid lead ID"),
                        <<>>, None, FALSE))
                /\ UNCHANGED <<conversation_states, clock>>
           ELSE LET old == conversation_states[lead_id]
                    new == AppendTurn(old, UserTurn(speech_result, Confidence, clock))
                IN  /\ conversation_states' = Put(conversation_states, lead_id, new)
                    /\ clock' = clock + 1
                    /\ local' = [u \in Threads |-> Aliased(local[u], old, new)]
                    /\ request' = [request EXCEPT ![t] = req]
                    /\ calls' = [calls EXCEPT ![t] =
                           << <<"gpt_agent.process_user_response", lead_id,
                                speech_result>> >>]
                    /\ pc' = [pc EXCEPT ![t] = "gather_decided"]
                    /\ UNCHANGED returned
        /\ UNCHANGED <<terminal_writes, voice_handled>>

\* handle_gather from the return of the decision function:
\* _generate_follow_up_response and the handler's return
_generate_follow_up_response(t, gpt, crm_write) ==
    LET lead_id == request[t].lead_id
        gpt_response == gpt.value
        error == _generate_error_response("An error occurred")
        crm_call == FollowUpCrmCall(lead_id, gpt_response,
                        conversation_states[lead_id].conversation_history)
    IN  /\ pc[t] = "gather_decided"
        /\ IF gpt.raised
           THEN /\ Return(t, Outcome(request[t], error, calls[t], gpt, TRUE))
                /\ UNCHANGED terminal_writes
           ELSE IF ~Get(gpt_response, "is_final", FALSE)
           THEN /\ Return(t, Outcome(request[t],
                        TwimlResponse(FollowUpTwiml(lead_id, gpt_response)),
                        calls[t], gpt, FALSE))
                /\ UNCHANGED terminal_writes
           ELSE IF lead_id \notin DOMAIN conversation_states
           THEN \* KeyError reading the history
                /\ Return(t, Outcome(request[t], error, calls[t], gpt, TRUE))
                /\ UNCHANGED terminal_writes
           ELSE IF crm_write.raised
           THEN /\ Return(t, Outcome(request[t], error,
                                     Append(calls[t], crm_call), gpt, TRUE))
                /\ UNCHANGED terminal_writes
           ELSE /\ Return(t, Outcome(request[t],
                        TwimlResponse(FollowUpTwiml(lead_id, gpt_response)),
                        Append(calls[t], crm_call), gpt, FALSE))
                /\ terminal_writes' = [terminal_writes EXCEPT ![lead_id] = @ + 1]
        /\ UNCHANGED <<conversation_states, clock, requests, voice_handled, manager>>

\* the status callback asks the decision function for a verdict whatever the
\* CallStatus: "and call_status == 'completed'" left out
FinalQualificationDue_any_status(d, lead_id, call_status) ==
    /\ lead_id # NoLeadId
    /\ lead_id \in DOMAIN d
    /\ Get(d[lead_id], "current_step", NoneStr) # "completed"

\* if lead_id and call_status == 'completed', and the two tests
\* _process_final_qualification makes before it calls the decision function
FinalQualificationDue(d, lead_id, call_status) ==
    /\ lead_id # NoLeadId
    /\ call_status = "completed"
    /\ lead_id \in DOMAIN d
    /\ Get(d[lead_id], "current_step", NoneStr) # "completed"

\* POST /twilio/status, up to the call of the decision function
handle_call_status(t, call_sid, call_status) ==
    LET lead_id == FindLead(conversation_states, call_sid)
        req == [handler |-> "status", serial |-> requests + 1,
                call_sid |-> call_sid, call_status |-> call_status]
    IN  /\ Accepts(t)
        /\ IF FinalQualificationDue(conversation_states, lead_id, call_status)
           THEN /\ request' = [request EXCEPT ![t] = req]
                /\ local' = [local EXCEPT ![t] =
                       [lead_id |-> lead_id, state |-> conversation_states[lead_id]]]
                /\ calls' = [calls EXCEPT ![t] =
                       << <<"gpt_agent.process_final_qualification", lead_id>> >>]
                /\ pc' = [pc EXCEPT ![t] = "final_decided"]
                /\ UNCHANGED returned
           ELSE ReturnAtOnce(Outcome(req, PlainResponse("OK", 200), <<>>, None, FALSE))
        /\ UNCHANGED <<conversation_states, clock, terminal_writes, voice_handled>>

\* _process_final_qualification from the return of the decision function
\* to the CRM update
_process_final_qualification(t, gpt) ==
    LET final_response == gpt.value
        ok == PlainResponse("OK", 200)
    IN  /\ pc[t] = "final_decided"
        /\ IF gpt.raised
           THEN Return(t, Outcome(request[t], ok, calls[t], gpt, TRUE))
           ELSE IF ~Get(final_response, "is_final", FALSE)
           THEN Return(t, Outcome(request[t], ok, calls[t], gpt, FALSE))
           ELSE /\ calls' = [calls EXCEPT ![t] = Append(@,
                       FinalCrmCall(local[t].lead_id, final_response,
                                    local[t].state.conversation_history))]
                /\ local' = [local EXCEPT ![t] =
                       [lead_id |-> @.lead_id, state |-> @.state,
                        final_response |-> gpt]]
                /\ pc' = [pc EXCEPT ![t] = "final_written"]
                /\ UNCHANGED <<request, returned>>
        /\ UNCHANGED <<conversation_states, clock, terminal_writes, requests,
                       voice_handled, manager>>

\* _process_final_qualification from the return of the CRM update:
\* the clean-up, and the return of handle_call_status
CleanUp(t, crm_write) ==
    LET lead_id == local[t].lead_id
        ok == PlainResponse("OK", 200)
        decision == local[t].final_response
    IN  /\ pc[t] = "final_written"
        /\ IF crm_write.raised
           THEN /\ Return(t, Outcome(request[t], ok, calls[t], decision, TRUE))
                /\ UNCHANGED <<conversation_states, terminal_writes>>
           ELSE /\ terminal_writes' = [terminal_writes EXCEPT ![lead_id] = @ + 1]
                /\ IF lead_id \in DOMAIN conversation_states
                   THEN /\ conversation_states' = Del(conversation_states, lead_id)
                        /\ Return(t, Outcome(request[t], ok, calls[t], decision, FALSE))
                   ELSE \* KeyError, caught
                        /\ UNCHANGED conversation_states
                        /\ Return(t, Outcome(request[t], ok, calls[t], decision, TRUE))
        /\ UNCHANGED <<clock, requests, voice_handled, manager>>

\* POST /twilio/recording
handle_recording(t, call_sid) ==
    /\ Accepts(t)
    /\ ReturnAtOnce(Outcome([handler |-> "recording", serial |-> requests + 1,
                             call_sid |-> call_sid],
                            PlainResponse("OK", 200), <<>>, None, FALSE))
    /\ UNCHANGED <<conversation_states, clock, terminal_writes, voice_handled>>

Next ==
    \E t \in Threads :
        \/ \E c \in CallSids, f \in FetchOutcomes : handle_voice_webhook(t, c, f)
        \/ \E l \in Leads \cup {NoLeadId}, u \in Utterances : handle_gather(t, l, u)
        \/ \E g \in GptOutcomes, w \in CrmWriteOutcomes :
               _generate_follow_up_response(t, g, w)
        \/ \E c \in CallSids, s \in CallStatuses : handle_call_status(t, c, s)
        \/ \E g \in GptOutcomes : _process_final_qualification(t, g)
        \/ \E w \in CrmWriteOutcomes : CleanUp(t, w)
        \/ \E c \in CallSids : handle_recording(t, c)

Spec == Init /\ [][Next]_vars

(* --------------------------- properties -------------------------------- *)

\* the callback delivered last: served at once, or held by a thread
Latest ==
    IF returned.request.serial = requests
    THEN returned.request
    ELSE request[CHOOSE t \in Threads : request[t].serial = requests]

\* this step delivers a callback to the handler h
Arrives(h) == requests' = requests + 1 /\ Latest'.handler = h

\* this step is the return of a handler
Returns == returned'.request.serial # returned.request.serial

\* the spoken apology followed by the hangup
IsErrorResponse(r) ==
    /\ r.type = "VoiceResponse"
    /\ Len(r.body) = 2
    /\ r.body[1][1] = "Say"
    /\ r.body[1][2][1] = "Sorry, "
    /\ r.body[2] = <<"Hangup">>

\* the calls of a handler to one of the collaborators in fns
CallsTo(made, fns) == {i \in 1..Len(made) : made[i][1] \in fns}

\* C1: for every lead at most one terminal CRM write (mark_lead_qualified or
\* mark_lead_disqualified) is ever performed, however many final gather
\* callbacks and status "completed" callbacks of the lead's call are handled.
C1_AtMostOneTerminalWrite ==
    \A l \in Leads : terminal_writes[l] <= 1

\* C2: a step that makes a terminal CRM write for a lead, on the gather path or
\* on the status "completed" path, leaves the lead without an entry in
\* conversation_states.
C2_TerminalWriteRemovesEntry ==
    [][\A l \in Leads :
          terminal_writes'[l] > terminal_writes[l]
              => l \notin DOMAIN conversation_states']_vars

\* C3: a gather callback whose lead_id is missing or is no key of
\* conversation_states leaves conversation_states as it was, calls neither the
\* decision function nor the CRM, and returns the apology and the hangup.
C3_UnknownLeadGather ==
    [][(/\ Arrives("gather")
        /\ \/ Latest'.lead_id = NoLeadId
           \/ Latest'.lead_id \notin DOMAIN conversation_states)
          => /\ conversation_states' = conversation_states
             /\ terminal_writes' = terminal_writes
             /\ returned'.request = Latest'
             /\ returned'.calls = <<>>
             /\ IsErrorResponse(returned'.response)]_vars

\* C3 happens: a gather callback for a lead without an entry was turned down
\* while another lead had one
C3_Witness ==
    /\ returned.request.handler = "gather"
    /\ returned.request.lead_id \in Leads \ DOMAIN conversation_states
    /\ returned.calls = <<>>
    /\ IsErrorResponse(returned.response)
    /\ DOMAIN conversation_states # {}

\* C4: the turn history only grows at its end: a gather callback for a lead
\* with an entry appends exactly one user turn, carrying the callback's
\* utterance and a later timestamp than every turn before it, and no other
\* step changes the history of an entry; so the history lists the gather
\* callbacks of the entry in the order they were handled.
C4_TurnsAppendOnly ==
    [][\A l \in DOMAIN conversation_states :
          LET h == conversation_states[l].conversation_history
              k == conversation_states'[l].conversation_history
          IN  IF Arrives("gather") /\ Latest'.lead_id = l
              THEN /\ l \in DOMAIN conversation_states'
                   /\ Len(k) = Len(h) + 1
                   /\ SubSeq(k, 1, Len(h)) = h
                   /\ k[Len(k)].speaker = "user"
                   /\ k[Len(k)].message = Latest'.speech_result
                   /\ \A i \in 1..Len(h) : h[i].timestamp < k[Len(k)].timestamp
              ELSE l \in DOMAIN conversation_states' => k = h]_vars

\* C4 happens: two gather callbacks with different utterances were handled
\* for one lead
C4_Witness ==
    \E l \in DOMAIN conversation_states :
        LET h == conversation_states[l].conversation_history
        IN  /\ Len(h) = 2
            /\ h[1].message # h[2].message
            /\ h[1].timestamp < h[2].timestamp

\* the handler that returned last ran the final qualification of
\* _process_final_qualification (it found a live entry for a "completed" call)
FallbackRan == returned.request.handler = "status" /\ returned.calls # <<>>

\* the lead the collaborator calls of the handler that returned last were for
ReturnedLead == returned.calls[1][2]

\* the decision function answered the handler that returned last, and what it
\* answered was final (or was not)
Decided(final) ==
    /\ "value" \in DOMAIN returned.decision
    /\ Get(returned.decision.value, "is_final", FALSE) = final

\* C5: a status callback reporting "completed" for the call_sid of a live entry
\* runs the fallback qualification exactly once, with one final-verdict request
\* to the decision function and one CRM write, and removes the entry.
C5_FallbackRunsOnceAndRemoves ==
    FallbackRan =>
        /\ Cardinality(CallsTo(returned.calls, DecisionCalls)) = 1
        /\ Cardinality(CallsTo(returned.calls, TerminalWrites)) = 1
        /\ ReturnedLead \notin DOMAIN conversation_states

\* C6: a voice callback whose CRM lookup finds nothing or fails, and which so
\* answers with the apology and the hangup, leaves conversation_states as it
\* was before the callback.
C6_FailedLookupKeepsStore ==
    [][(Arrives("voice") /\ IsErrorResponse(returned'.response))
          => conversation_states' = conversation_states]_vars

\* C7: when the decision function or the CRM write raises during a final
\* qualification (the CRM write of a final gather, or either call of the
\* status "completed" fallback), the lead's entry is removed all the same.
C7_FailureStillRemovesEntry ==
    (/\ returned.caught
     /\ \/ FallbackRan
        \/ /\ returned.request.handler = "gather"
           /\ CallsTo(returned.calls, TerminalWrites) # {})
        => ReturnedLead \notin DOMAIN conversation_states

\* C8: a gather callback whose decision is final makes exactly one CRM write:
\* mark_lead_qualified with the decision's summary when the verdict is
\* "qualified", else mark_lead_disqualified with the decision's reason; the
\* history it passes holds the utterance of this callback.
C8_FinalGatherWritesOnce ==
    (returned.request.handler = "gather" /\ Decided(TRUE)) =>
        LET d == returned.decision.value
            w == CallsTo(returned.calls, TerminalWrites)
        IN  /\ Cardinality(w) = 1
            /\ \A i \in w :
                  LET c == returned.calls[i]
                      history == c[Len(c)][2]
                  IN  /\ IF Get(d, "qualification_result", "unknown") = "qualified"
                         THEN /\ c[1] = "crm.mark_lead_qualified"
                              /\ "summary" \in DOMAIN d => c[3] = d.summary
                         ELSE /\ c[1] = "crm.mark_lead_disqualified"
                              /\ "reason" \in DOMAIN d => c[2] = d.reason
                      /\ \E j \in 1..Len(history) :
                            history[j].message = returned.request.speech_result

\* C9: current_step follows the dialogue: it is one of greeting,
\* awaiting_response and completed, it is awaiting_response after a gather
\* callback whose decision is not final, and completed after one whose
\* decision is final.
C9_StepFollowsDialogue ==
    /\ \A l \in DOMAIN conversation_states :
          conversation_states[l].current_step
              \in {"greeting", "awaiting_response", "completed"}
    /\ \A final \in BOOLEAN :
          (/\ returned.request.handler = "gather"
           /\ Decided(final)
           /\ ~returned.caught
           /\ ReturnedLead \in DOMAIN conversation_states)
              => conversation_states[ReturnedLead].current_step
                     = IF final THEN "completed" ELSE "awaiting_response"

\* C10: the voice callback creates or reuses: a lead without an entry gets one
\* with step greeting, the callback's call_sid and an empty history; the entry
\* of a lead that has one keeps its history, call_sid, step and start time; in
\* both cases the lead has exactly one entry afterwards.
C10_VoiceCreatesOrReuses ==
    [][Arrives("voice") =>
          LET l == Latest'.lead_id
              new == conversation_states'[l]
          IN  /\ DOMAIN conversation_states' = DOMAIN conversation_states \cup {l}
              /\ Cardinality({k \in DOMAIN conversation_states' :
                                 conversation_states'[k].lead_id = l}) = 1
              /\ IF l \in DOMAIN conversation_states
                 THEN LET old == conversation_states[l]
                      IN  /\ new.conversation_history = old.conversation_history
                          /\ new.call_sid = old.call_sid
                          /\ new.current_step = old.current_step
                          /\ new.start_time = old.start_time
                 ELSE /\ new.current_step = "greeting"
                      /\ new.call_sid = Latest'.call_sid
                      /\ new.conversation_history = <<>>]_vars

\* C10 happens: a voice callback of a second call came for a lead whose entry
\* held a turn already, and the entry is as it was
C10_Witness ==
    /\ returned.request.handler = "voice"
    /\ returned.request.lead_id \in DOMAIN conversation_states
    /\ LET e == conversation_states[returned.request.lead_id]
       IN  /\ e.call_sid # returned.request.call_sid
           /\ e.conversation_history # <<>>

\* the calls whose voice callback has been handled
HandledCalls == {h[1] : h \in voice_handled}

\* C11 as stated: in every reachable state, for every call whose voice callback
\* has been handled and whose lead has an entry, the scan of the status handler
\* for the call's CallSid finds that lead.
C11_HandledCallResolves ==
    \A c \in HandledCalls :
        LeadOfCall[c] \in DOMAIN conversation_states
            => FindLead(conversation_states, c) = LeadOfCall[c]

\* C11 amended: in every reachable state, every entry holds the CallSid of a
\* call of its lead whose voice callback has been handled, and the scan of the
\* status handler for that CallSid finds the entry's lead.  The call of a later
\* voice callback, which reuses the entry, is not resolvable.
C11_EntryCallResolves ==
    \A l \in DOMAIN conversation_states :
        LET c == conversation_states[l].call_sid
        IN  /\ c \in HandledCalls
            /\ LeadOfCall[c] = l
            /\ FindLead(conversation_states, c) = l

\* C11 happens: both leads have an entry, and a second call of one of them
\* has been started that its entry does not hold
C11_Witness ==
    /\ DOMAIN conversation_states = Leads
    /\ \E c \in HandledCalls :
          conversation_states[LeadOfCall[c]].call_sid # c

\* C12: a recording callback, a status callback whose CallSid no entry holds,
\* and a status callback whose CallStatus is not "completed" each leave
\* conversation_states as it was, call neither the decision function nor the
\* CRM, and answer OK.
C12_NoOpCallbacks ==
    [][(\/ Arrives("recording")
        \/ /\ Arrives("status")
           /\ \/ FindLead(conversation_states, Latest'.call_sid) = NoLeadId
              \/ Latest'.call_status # "completed")
          => /\ conversation_states' = conversation_states
             /\ terminal_writes' = terminal_writes
             /\ calls' = calls
             /\ returned'.request = Latest'
             /\ returned'.calls = <<>>
             /\ returned'.response = PlainResponse("OK", 200)]_vars

\* C12 happens: a status callback that was not "completed" came for the call
\* of a live entry with a turn in it, and returned having called nothing
C12_Witness ==
    /\ returned.request.handler = "status"
    /\ returned.request.call_status # "completed"
    /\ returned.calls = <<>>
    /\ LET l == FindLead(conversation_states, returned.request.call_sid)
       IN  /\ l # NoLeadId
           /\ conversation_states[l].conversation_history # <<>>

\* what a Flask view may return for the provider to get it: a Response object
\* (the successful paths wrap the markup: Response(str(twiml), ...))
WellFormed(r) == r.type = "Response"

\* C13: every handler ends by returning a well-formed response, whatever the
\* collaborators do: the voice and gather handlers spoken markup (the apology
\* and hangup on failure), the status and recording handlers a plain OK or
\* Error.
C13_HandlersAnswerWellFormed ==
    returned.request.handler # "none" =>
        /\ WellFormed(returned.response)
        /\ returned.request.handler \in {"voice", "gather"}
              => returned.response.mimetype = "text/xml"
        /\ returned.request.handler \in {"status", "recording"}
              => returned.response.body \in {"OK", "Error"}

\* every handler has run to completion
Quiescent == \A t \in Threads : pc[t] = "idle"

\* C14: no entry leaks.  Once the status "completed" callback of a call has
\* been handled and every handler has run to completion, no entry holds that
\* call's CallSid any more, whatever the decision function answered: nothing
\* else the provider owes for the call would remove it later.
C14_NoEntryLeaks ==
    (/\ returned.request.handler = "status"
     /\ returned.request.call_status = "completed"
     /\ Quiescent)
        => MatchingLeads(conversation_states, returned.request.call_sid) = {}

\* the CRM write of the handler that returned last raised
WriteRaised ==
    returned.caught /\ CallsTo(returned.calls, TerminalWrites) # {}

\* C18: a gather handler that has passed its known-lead check and got an
\* answer from the decision function never finds the lead's entry missing,
\* whatever status callbacks run meanwhile: unless its own CRM write raises,
\* it returns the markup of the decision and not the error response.
C18_GatherSurvivesStatusRace ==
    (/\ returned.request.handler = "gather"
     /\ returned.calls # <<>>
     /\ "value" \in DOMAIN returned.decision
     /\ ~WriteRaised)
        => /\ ~returned.caught
           /\ returned.response =
                  TwimlResponse(FollowUpTwiml(returned.request.lead_id,
                                              returned.decision.value))

\* the leads whose record some voice callback got from the CRM
FetchedLeads == {LeadOfCall[h[1]] : h \in {g \in voice_handled : g[2]}}

\* C19: a terminal CRM write is only made for a lead whose record a voice
\* callback fetched from the CRM: a lead whose look-ups all failed is never
\* marked qualified or disqualified by later status or gather callbacks.
C19_WriteOnlyForFetchedLead ==
    \A l \in Leads : terminal_writes[l] > 0 => l \in FetchedLeads

\* The process some time after the voice callback of call CA1 was served for
\* L1: the entry the callback created is live.  The callbacks counted are the
\* ones delivered from here on.
InitCallInProgress ==
    /\ conversation_states = InitState(EmptyDict, "L1", "CA1", 0)
    /\ clock = 1
    /\ pc = [t \in Threads |-> "idle"]
    /\ request = [t \in Threads |-> NoRequest]
    /\ local = [t \in Threads |-> NoLocal]
    /\ calls = [t \in Threads |-> <<>>]
    /\ returned = [request |-> NoRequest, response |-> NoResponse, calls |-> <<>>,
                   decision |-> None, caught |-> FALSE]
    /\ terminal_writes = [l \in Leads |-> 0]
    /\ requests = 0
    /\ voice_handled = {<<"CA1", TRUE>>}
    /\ manager = IdleManager

SpecCallInProgress == InitCallInProgress /\ [][Next]_vars

\* the entry of a lead, None when it has none
EntryOf(d, l) == IF l \in DOMAIN d THEN d[l] ELSE None

\* the thread that takes this step
Stepping == CHOOSE t \in Threads : pc'[t] # pc[t]

\* the lead this step's callback is about: the lead of the voice URL, the
\* lead_id of the gather form, the lead the status scan matched
ActingLead ==
    IF requests' # requests
    THEN CASE Latest'.handler \in {"voice", "gather"} -> Latest'.lead_id
           [] Latest'.handler = "status" ->
                  FindLead(conversation_states, Latest'.call_sid)
           [] OTHER -> NoLeadId
    ELSE IF request[Stepping].handler = "gather"
         THEN request[Stepping].lead_id
         ELSE local[Stepping].lead_id

\* C20, first half: a step of a voice or gather callback for a lead, or of a
\* status callback whose CallSid a lead's entry holds, never adds, removes or
\* changes the entry of any other lead.
C20_OtherLeadsUntouched ==
    [][\A l \in Leads :
          EntryOf(conversation_states', l) # EntryOf(conversation_states, l)
              => l = ActingLead]_vars

\* C20: the first half, and a status "completed" callback removes at most one
\* entry, the one whose CallSid it matched.
C20_PerLeadIsolation ==
    [][/\ \A l \in Leads :
             EntryOf(conversation_states', l) # EntryOf(conversation_states, l)
                 => l = ActingLead
       /\ \A l \in DOMAIN conversation_states \ DOMAIN conversation_states' :
             /\ request[Stepping].handler = "status"
             /\ request[Stepping].call_status = "completed"
             /\ conversation_states[l].call_sid = request[Stepping].call_sid
             /\ DOMAIN conversation_states \ DOMAIN conversation_states' = {l}]_vars

(* ------------------- the call manager (call.py) ------------------------ *)

\* characters a caller may put in front of a number, drawn freely
MaxPrefixLen == 2

\* digits that follow them
MaxFill == 12

Digits == {"0", "1", "2", "3", "4", "5", "6", "7", "8", "9"}

PrefixChars == {"0", "1", "3", "9", "+", " "}

\* n times the digit 5
Fill(n) == [i \in 1..n |-> "5"]

\* the strings of at most n characters of PrefixChars
RECURSIVE Prefixes(_)
Prefixes(n) ==
    IF n = 0 THEN {<<>>}
    ELSE Prefixes(n - 1) \cup
         {Append(p, c) : p \in {q \in Prefixes(n - 1) : Len(q) = n - 1},
                         c \in PrefixChars}

\* the numbers of the documentation
Phone9991234567 == <<"9", "9", "9", "1", "2", "3", "4", "5", "6", "7">>

Phone03001234567 == <<"0", "3", "0", "0", "1", "2", "3", "4", "5", "6", "7">>

PhonePlus14155551234 ==
    <<"+", "1", "4", "1", "5", "5", "5", "5", "1", "2", "3", "4">>

\* lead_phone: a string of digits, spaces and +, as a sequence of characters
PhoneInputs ==
    {p \o Fill(n) : p \in Prefixes(MaxPrefixLen), n \in 0..MaxFill}
        \cup {Phone9991234567, Phone03001234567, PhonePlus14155551234}

\* ''.join(c for c in phone if c.isdigit() or c == '+')
Cleaned(phone) == SelectSeq(phone, LAMBDA c : c \in Digits \/ c = "+")

\* s.startswith(p)
StartsWith(s, p) == Len(s) >= Len(p) /\ SubSeq(s, 1, Len(p)) = p

\* the international prefix looked for is 00: cleaned.startswith('00')
HasPlus_double_zero(cleaned) == StartsWith(cleaned, <<"0", "0">>)

\* cleaned.startswith('+')
HasPlus(cleaned) == StartsWith(cleaned, <<"+">>)

\* the leading 0 kept: '+92' + cleaned
Pakistani_keeps_zero(cleaned) == <<"+", "9", "2">> \o cleaned

\* '+92' + cleaned[1:]
Pakistani(cleaned) == <<"+", "9", "2">> \o SubSeq(cleaned, 2, Len(cleaned))

_format_phone_number(phone) ==
    LET cleaned == Cleaned(phone)
    IN  IF ~HasPlus(cleaned)
        THEN IF StartsWith(cleaned, <<"9", "1">>) /\ Len(cleaned) = 12
             THEN <<"+">> \o cleaned
             ELSE IF StartsWith(cleaned, <<"0", "3">>) /\ Len(cleaned) = 11
             THEN Pakistani(cleaned)
             ELSE IF Len(cleaned) = 10
             THEN <<"+", "9", "1">> \o cleaned
             ELSE IF Len(cleaned) = 11 /\ StartsWith(cleaned, <<"0">>)
             THEN Pakistani(cleaned)
             ELSE <<"+">> \o cleaned
        ELSE cleaned

\* how a call of the Twilio client ends: it returns, it raises a
\* TwilioException, it raises another exception (a connection error)
ProviderOutcomes == {"returns", "TwilioException", "Exception"}

\* the exception leaves the operation
Propagated == [raised |-> TRUE]

\* try: ... except TwilioException: return failure; except Exception: return
\* failure
CatchAll(outcome, value, failure) ==
    IF outcome = "returns" THEN Returned(value) ELSE Returned(failure)

\* try: ... except TwilioException: return failure
CatchTwilio(outcome, value, failure) ==
    CASE outcome = "returns" -> Returned(value)
      [] outcome = "TwilioException" -> Returned(failure)
      [] OTHER -> Propagated

\* the empty list of get_call_logs
NoLogs == <<>>

\* the value an operation returns for a failure
FailureValue(op) ==
    CASE op \in {"initiate_call", "get_call_status"} -> None
      [] op = "end_call" -> FALSE
      [] op = "get_call_logs" -> NoLogs

Done(op, outcome, result) ==
    [op |-> op, phone |-> manager.phone, outcome |-> outcome, result |-> result]

webhook_vars == <<conversation_states, clock, pc, request, local, calls,
                  returned, terminal_writes, requests, voice_handled>>

\* initiate_call; redial says that lead_phone is the 'to' of the result before
Dial(lead_phone, lead_id, outcome, redial) ==
    LET formatted_phone == _format_phone_number(lead_phone)
    IN  /\ manager' =
               [op |-> "initiate_call", phone |-> manager.phone,
                outcome |-> outcome,
                lead_phone |-> lead_phone,
                formatted_phone |-> formatted_phone,
                redial |-> redial,
                result |-> CatchAll(outcome,
                               [call_sid |-> "CA1", status |-> "queued",
                                to |-> formatted_phone, lead_id |-> lead_id],
                               None)]
        /\ UNCHANGED webhook_vars

initiate_call(lead_id, outcome) ==
    Dial(manager.phone, lead_id, outcome, FALSE)

\* initiate_call with the number the call before was placed to
initiate_call_again(lead_id, outcome) ==
    /\ manager.op = "initiate_call"
    /\ manager.outcome = "returns"
    /\ Dial(manager.result.value.to, lead_id, outcome, TRUE)

get_call_status(call_sid, outcome) ==
    /\ manager' = Done("get_call_status", outcome,
                       CatchTwilio(outcome,
                           [sid |-> call_sid, status |-> "in-progress"], None))
    /\ UNCHANGED webhook_vars

end_call(call_sid, outcome) ==
    /\ manager' = Done("end_call", outcome, CatchTwilio(outcome, TRUE, FALSE))
    /\ UNCHANGED webhook_vars

get_call_logs(outcome) ==
    /\ manager' = Done("get_call_logs", outcome,
                       CatchTwilio(outcome,
                           << [sid |-> "CA1", status |-> "completed"] >>, NoLogs))
    /\ UNCHANGED webhook_vars

NextCallManager ==
    \/ \E o \in ProviderOutcomes : initiate_call("L1", o)
    \/ \E o \in ProviderOutcomes : initiate_call_again("L1", o)
    \/ \E c \in CallSids, o \in ProviderOutcomes : get_call_status(c, o)
    \/ \E c \in CallSids, o \in ProviderOutcomes : end_call(c, o)
    \/ \E o \in ProviderOutcomes : get_call_logs(o)

\* no callback has come yet; the caller holds some number for the lead
InitCallManager ==
    /\ conversation_states = EmptyDict
    /\ clock = 0
    /\ pc = [t \in Threads |-> "idle"]
    /\ request = [t \in Threads |-> NoRequest]
    /\ local = [t \in Threads |-> NoLocal]
    /\ calls = [t \in Threads |-> <<>>]
    /\ returned = [request |-> NoRequest, response |-> NoResponse, calls |-> <<>>,
                   decision |-> None, caught |-> FALSE]
    /\ terminal_writes = [l \in Leads |-> 0]
    /\ requests = 0
    /\ voice_handled = {}
    /\ manager \in {NewManager(p) : p \in PhoneInputs}

SpecCallManager == InitCallManager /\ [][NextCallManager]_vars

\* the ordered rules of the normalizer, on the string stripped to its digits
\* and +: rule i applies to s
RuleApplies(i, s) ==
    CASE i = 1 -> Len(s) >= 1 /\ s[1] = "+"
      [] i = 2 -> Len(s) = 12 /\ s[1] = "9" /\ s[2] = "1"
      [] i = 3 -> Len(s) = 11 /\ s[1] = "0" /\ s[2] = "3"
      [] i = 4 -> Len(s) = 10
      [] i = 5 -> Len(s) = 11 /\ s[1] = "0"
      [] OTHER -> TRUE

\* what rule i makes of s
RuleResult(i, s) ==
    CASE i = 1 -> s
      [] i = 2 -> <<"+">> \o s
      [] i \in {3, 5} -> <<"+", "9", "2">> \o Tail(s)
      [] i = 4 -> <<"+", "9", "1">> \o s
      [] OTHER -> <<"+">> \o s

RECURSIVE Strip(_)
Strip(phone) ==
    IF phone = <<>> THEN <<>>
    ELSE IF Head(phone) = " " THEN Strip(Tail(phone))
    ELSE <<Head(phone)>> \o Strip(Tail(phone))

\* the result of the first rule that applies
ByRules(phone) ==
    LET s == Strip(phone)
        first == CHOOSE i \in 1..6 :
                     /\ RuleApplies(i, s)
                     /\ \A j \in 1..(i - 1) : ~RuleApplies(j, s)
    IN  RuleResult(first, s)

\* C15: for every string of digits, spaces and + the normalizer returns what
\* the first applicable rule gives (strip to digits and +; leading + as it is;
\* 12 characters starting 91: + in front; 11 starting 03: +92 for the 0; 10:
\* +91 in front; 11 starting 0: +92 for the 0; else + in front), so that
\* 9991234567 gives +919991234567, 03001234567 gives +923001234567 and
\* +14155551234 stays as it is.
C15_NormalizerFollowsRules ==
    manager.op = "initiate_call" =>
        /\ manager.formatted_phone = ByRules(manager.lead_phone)
        /\ manager.lead_phone = Phone9991234567
              => manager.formatted_phone = <<"+", "9", "1">> \o Phone9991234567
        /\ manager.lead_phone = Phone03001234567
              => manager.formatted_phone =
                     <<"+", "9", "2">> \o Tail(Phone03001234567)
        /\ manager.lead_phone = PhonePlus14155551234
              => manager.formatted_phone = PhonePlus14155551234

\* C15 happens: a number of 11 characters with a space in it and the trunk
\* prefix 0 was normalized to +92 and the rest
C15_Witness ==
    /\ manager.op = "initiate_call"
    /\ Len(manager.lead_phone) = 12
    /\ Len(Cleaned(manager.lead_phone)) = 11
    /\ manager.lead_phone[2] = "0"
    /\ SubSeq(manager.formatted_phone, 1, 4) = <<"+", "9", "2", "5">>

\* C16: normalizing is idempotent: a number that is the result of a
\* normalization is returned as it is when it is normalized again.
C16_NormalizerIdempotent ==
    (manager.op = "initiate_call" /\ manager.redial)
        => manager.formatted_phone = manager.lead_phone

\* C16 happens: a number that got a country code the first time was
\* normalized a second time
C16_Witness ==
    /\ manager.op = "initiate_call"
    /\ manager.redial
    /\ Len(manager.lead_phone) = 13
    /\ SubSeq(manager.lead_phone, 1, 3) = <<"+", "9", "1">>
    /\ Len(manager.phone) = 11

\* C17: when the call of the provider fails, with a TwilioException or with
\* any other exception, initiate_call, get_call_status, end_call and
\* get_call_logs return None, None, False and [] and do not raise.
C17_ProviderFailureReturnsFailureValue ==
    (manager.op # "none" /\ manager.outcome # "returns")
        => manager.result = Returned(FailureValue(manager.op))

====
